---- MODULE Spec2Model ----
(***************************************************************************)
(* jeddit (src/app.py): the cache-aside fetch engine reddit_fetch, the     *)
(* token resolution get_user / get_access_token, the request handlers that *)
(* record usage statistics, the authorization-code exchange and logout,    *)
(* all working on one shared Redis store.                                  *)
(*                                                                         *)
(* Redis holds bytes.  A byte string is modelled as a record               *)
(*     [enc, style, val]                                                   *)
(* enc = "json": a JSON text whose decoding is the object val, written in  *)
(* the byte layout `style`; enc = "text": the plain text val.s, which is   *)
(* no JSON document; enc = "absent": redis-py's None for a missing key.    *)
(* A JSON object (a Python dict) is a function from field names to         *)
(* strings; Python's None is the string "None".                            *)
(***************************************************************************)
EXTENDS Integers, FiniteSets, Sequences, TLC

\* ---------------------------------------------------------------- bounds

\* Calls counted per request saturate here (the recursion itself is unbounded).
MaxCount == 2
\* The age of a resource entry, in seconds, saturates here.
AgeCap == 301
\* The simulated clock moves in these steps (seconds).
TickSteps == {299, 301}

\* ------------------------------------------------------- values and bytes

None == "None"
EmptyDict == [x \in {} |-> None]

DictGet(d, f) == IF f \in DOMAIN d THEN d[f] ELSE None
\* Python's d1 | d2: the right operand wins.
DictMerge(d1, d2) == d2 @@ d1

Absent == [enc |-> "absent", style |-> "", val |-> EmptyDict]
JsonBytes(style, v) == [enc |-> "json", style |-> style, val |-> v]
TextBytes(s) == [enc |-> "text", style |-> "", val |-> [s |-> s]]

\* json.loads: fails (ok = FALSE) on bytes that are no JSON document.
JsonLoads(raw) ==
    IF raw.enc = "json" THEN [ok |-> TRUE, val |-> raw.val]
    ELSE [ok |-> FALSE, val |-> EmptyDict]
\* json.dumps: always the ", " / ": " layout.
JsonDumps(v) == JsonBytes("dumps", v)
\* bytes.decode(): the text itself; of a JSON document, its text as a string.
BytesDecode(raw) == IF raw.enc = "text" THEN raw.val.s ELSE "{json text}"

\* ------------------------------------------------------------ cache keys

AT == "access_token"
AnonStatsKey == "api_stats"
UrlRoot == "https://oauth.reddit.com/"
UrlPopular == "https://oauth.reddit.com/r/popular"
Urls == {UrlRoot, UrlPopular}
Paths == {"/", "/r/popular"}
UserNames == {"bob"}
\* name + ".api_stats " (the trailing blank is the source's)
UserStatsKey(name) == CASE name = "bob" -> "bob.api_stats "
\* The user_token cookie is whatever the client sends.
\* Identifiers /login has issued (uuid4).
SessionIds == {"sid1"}
Cookies == {None, "sid1", AT, UrlPopular}
StatsKeys == {AnonStatsKey} \cup {UserStatsKey(n) : n \in UserNames}
Keys == {AT, AnonStatsKey, "sid1"} \cup Urls \cup {UserStatsKey(n) : n \in UserNames}

\* ------------------------------------------------------------- upstream

AppTokens == {"a1", "a2"}
UserTokens == {"ut"}
\* What the resource endpoint lists for the account a bearer token stands for:
\* a user's token gets that user's own listing, any other token the public one.
ListingFor(tok) ==
    IF tok \in UserTokens THEN [kind |-> "Listing", after |-> "t3_2"]
    ELSE [kind |-> "Listing", after |-> "t3_1"]
Payloads == {ListingFor(t) : t \in UserTokens \cup {None}}
Garbage == TextBytes("<html>")
\* Bodies of a 200 answer: upstream's own JSON layout, or no JSON at all.
Bodies == {JsonBytes("upstream", v) : v \in Payloads} \cup {Garbage}
\* The rate-limit headers of a 200 answer: all three, or x-ratelimit-used missing.
HeaderSets ==
    { ("x-ratelimit-used" :> "5") @@ ("x-ratelimit-remaining" :> "595")
         @@ ("x-ratelimit-reset" :> "600"),
      ("x-ratelimit-remaining" :> "595") @@ ("x-ratelimit-reset" :> "600") }
NoHeaders == EmptyDict
\* HTTP status codes, as the strings of their numbers.
OK == "200"
UNAUTHORIZED == "401"
\* Other statuses upstream may answer with.
RejectStatuses == {"403", "404"}
\* What the framework answers when a handler raises anything but HTTPException.
UncaughtStatus == "500"
\* What the resource endpoint may answer to a GET.
GetResponses ==
    [status : {OK}, body : Bodies, headers : HeaderSets]
    \cup [status : {UNAUTHORIZED} \cup RejectStatuses, body : {Garbage},
          headers : {NoHeaders}]
\* What the token endpoint may answer to a client-credentials grant.
GrantResponses ==
    [status : {OK}, access_token : AppTokens]
    \cup [status : {"503"}, access_token : {None}]
\* What the token endpoint may answer to an authorization-code grant.
ExchangeResponses ==
    [status : {OK}, json : {[access_token |-> t] : t \in UserTokens}]
    \cup [status : {"400"}, json : {EmptyDict}]
\* Bodies the identity-profile endpoint may answer with, whatever its status.
MeBodies ==
    {JsonBytes("upstream", [name |-> n]) : n \in UserNames}
    \cup {JsonBytes("upstream", [error |-> "403"]), Garbage}

\* What the resource endpoint may answer to a GET that carries the bearer tok.
GetResponsesTo(tok) ==
    {r \in GetResponses :
        (r.status = OK /\ r.body # Garbage)
            => r.body = JsonBytes("upstream", ListingFor(tok))}

\* auth has not (yet) called the token endpoint.
NoExchange == [status |-> None, json |-> EmptyDict]

NoResp == [status |-> None, body |-> Absent, headers |-> NoHeaders]

Procs == {"r1", "r2"}

VARIABLES
    cache,       \* Redis: key -> bytes, or Absent
    ttl,         \* Redis: key -> seconds left, or NoTtl
    pc,          \* each request's position
    kind,        \* which route the request is for
    cookie,      \* the request's user_token cookie
    path,        \* request.url.path
    user_info,   \* get_user's result
    token,       \* the bearer token in hand (access_token, then bearer_token)
    resp,        \* reddit_fetch's resp, the answer to its latest GET
    data,        \* reddit_fetch's first result
    api_stats,   \* reddit_fetch's second result, then the handler's api_stats
    status,      \* the status answered to the client
    gets,        \* upstream GETs of this request
    refreshes,   \* generate_access_token calls made by reddit_fetch (line 126)
    generated,   \* get_access_token called generate_access_token (line 103)
    app_lookup,  \* get_access_token read the access_token key (line 100)
    bearer,      \* the bearer_token the latest GET carried in its Authorization
    issued,      \* the token of the request's latest successful grant
    access_token_resp, \* auth: the answer to the code exchange
    me_resp,     \* auth: the body the identity-profile endpoint answered with
    age,         \* seconds since a live fetch wrote the entry under the key
    writer,      \* which code last wrote the entry under the key
    recorded,    \* the stats triple last recorded under the stats key
    session      \* what last happened to the session identifier: "none",
                 \* "stored" by an exchange, or "logged_out"

redis == <<cache, ttl>>
\* What a request has sent upstream so far.
calls == <<bearer, issued, access_token_resp, me_resp>>
locals == <<kind, cookie, path, user_info, token, resp, data, api_stats, status,
            gets, refreshes, generated, app_lookup, calls>>
history == <<age, writer, recorded, session>>
vars == <<cache, ttl, pc, kind, cookie, path, user_info, token, resp, data, api_stats,
          status, gets, refreshes, generated, app_lookup, bearer, issued,
          access_token_resp, me_resp, age, writer, recorded, session>>

NoTtl == 0 - 1
\* (mutant) the expiry one second short
ResourceTtl_Mut == 60 * 5 - 1

\* ex=60 * 5
ResourceTtl == 60 * 5

Inc(n) == IF n < MaxCount THEN n + 1 ELSE n
Min(a, b) == IF a < b THEN a ELSE b

\* ------------------------------------------------------------ Redis calls

\* cache.set(k, v): SET drops any expiry the key had.
RedisSet(c, k, v) == [c EXCEPT ![k] = v]
RedisSetTtl(t, k, ex) == [t EXCEPT ![k] = ex]
\* (mutant) the delete leaves the entry in place
RedisDelete_Mut(c, k) == c

\* cache.delete(k)
RedisDelete(c, k) == [c EXCEPT ![k] = Absent]

Wrote(k, who) ==
    /\ writer' = [writer EXCEPT ![k] = who]
    /\ age' = [age EXCEPT ![k] = 0]
    /\ UNCHANGED <<recorded, session>>

\* auth stored a session record under k (how = "stored"), or logout deleted
\* the key k (how = "logged_out").
WroteSession(k, how) ==
    /\ writer' = [writer EXCEPT ![k] = IF how = "stored" THEN "session" ELSE "none"]
    /\ age' = [age EXCEPT ![k] = 0]
    /\ session' = [s \in SessionIds |-> IF s = k THEN how ELSE session[s]]
    /\ UNCHANGED recorded

\* The handler stored the triple under its stats key.
Recorded(k, triple) ==
    /\ writer' = [writer EXCEPT ![k] = "stats"]
    /\ age' = [age EXCEPT ![k] = 0]
    /\ recorded' = [recorded EXCEPT ![k] = triple]
    /\ UNCHANGED session

\* ------------------------------------------------------------------ Init

Fresh(active) ==
    /\ pc = [p \in Procs |-> IF p \in active THEN "idle" ELSE "off"]
    /\ kind = [p \in Procs |-> "none"]
    /\ cookie = [p \in Procs |-> None]
    /\ path = [p \in Procs |-> "/"]
    /\ user_info = [p \in Procs |-> EmptyDict]
    /\ token = [p \in Procs |-> None]
    /\ resp = [p \in Procs |-> NoResp]
    /\ data = [p \in Procs |-> EmptyDict]
    /\ api_stats = [p \in Procs |-> EmptyDict]
    /\ status = [p \in Procs |-> None]
    /\ gets = [p \in Procs |-> 0]
    /\ refreshes = [p \in Procs |-> 0]
    /\ generated = [p \in Procs |-> FALSE]
    /\ app_lookup = [p \in Procs |-> FALSE]
    /\ bearer = [p \in Procs |-> None]
    /\ issued = [p \in Procs |-> None]
    /\ access_token_resp = [p \in Procs |-> NoExchange]
    /\ me_resp = [p \in Procs |-> Absent]

\* The store is a service of its own: it starts empty, or holding under a
\* resource key bytes that are no JSON document.
InitialStores ==
    { [k \in Keys |-> Absent],
      [k \in Keys |-> IF k = UrlPopular THEN Garbage ELSE Absent] }

InitRedis ==
    /\ cache \in InitialStores
    /\ ttl = [k \in Keys |-> NoTtl]
    /\ age = [k \in Keys |-> 0]
    /\ writer = [k \in Keys |-> IF cache[k] = Absent THEN "none" ELSE "external"]
    /\ recorded = [k \in StatsKeys |-> EmptyDict]
    /\ session = [s \in SessionIds |-> "none"]

Init == InitRedis /\ Fresh({"r1"})

\* --------------------------------------------------------- a read request

\* A client asks for a listing (the routes of subreddit), its cookie one of cs.
RequestWith(p, cs) ==
    /\ pc[p] = "idle"
    /\ \E c \in cs, q \in Paths :
         /\ cookie' = [cookie EXCEPT ![p] = c]
         /\ path' = [path EXCEPT ![p] = q]
    /\ kind' = [kind EXCEPT ![p] = "subreddit"]
    /\ pc' = [pc EXCEPT ![p] = "get_user"]
    /\ UNCHANGED <<redis, history, user_info, token, resp, data, api_stats, status,
                   gets, refreshes, generated, app_lookup, calls>>

Request(p) == RequestWith(p, Cookies)

\* get_user, to its return or to its cache.delete.
GetUser(p) ==
    /\ pc[p] = "get_user"
    /\ LET cached_info == IF cookie[p] = None THEN Absent ELSE cache[cookie[p]]
           loaded == JsonLoads(cached_info)
       IN  IF cookie[p] = None
           THEN /\ pc' = [pc EXCEPT ![p] = "get_access_token"]
                /\ UNCHANGED <<user_info, status>>
           ELSE IF cached_info = Absent
           THEN /\ pc' = [pc EXCEPT ![p] = "get_user_delete"]
                /\ UNCHANGED <<user_info, status>>
           ELSE IF loaded.ok
           THEN /\ user_info' = [user_info EXCEPT ![p] = loaded.val]
                /\ pc' = [pc EXCEPT ![p] = "get_access_token"]
                /\ UNCHANGED status
           ELSE /\ status' = [status EXCEPT ![p] = UncaughtStatus]
                /\ pc' = [pc EXCEPT ![p] = "raise"]
                /\ UNCHANGED user_info
    /\ UNCHANGED <<redis, history, kind, cookie, path, token, resp, data, api_stats,
                   gets, refreshes, generated, app_lookup, calls>>

\* get_user's cache.delete(user_token) of the key it found missing.
GetUserDelete(p) ==
    /\ pc[p] = "get_user_delete"
    /\ cache' = RedisDelete(cache, cookie[p])
    /\ ttl' = RedisSetTtl(ttl, cookie[p], NoTtl)
    /\ Wrote(cookie[p], "none")
    /\ pc' = [pc EXCEPT ![p] = "get_access_token"]
    /\ UNCHANGED locals

\* (mutant) the token looked up under the wrong field name
UserToken_Mut(info) == DictGet(info, "token")

\* user_info.get("access_token")
UserToken(info) == DictGet(info, "access_token")

\* generate_access_token's result for an answer of the token endpoint.
GenerateAccessToken(r) == IF r.status = OK THEN r.access_token ELSE None

\* (mutant) the token is stored whether or not the grant gave one
StoreAnyToken_Mut(c, tok) == RedisSet(c, AT, TextBytes(tok))

\* (mutant) the refreshed token is used but not stored
StoreAppToken_Mut(c, tok) == c

\* if token is not None: cache.set("access_token", token)
StoreAppToken(c, tok) == IF tok # None THEN RedisSet(c, AT, TextBytes(tok)) ELSE c

\* get_access_token, to its return or to its generate_access_token call.
GetAccessToken(p) ==
    /\ pc[p] = "get_access_token"
    /\ IF UserToken(user_info[p]) # None
       THEN /\ token' = [token EXCEPT ![p] = UserToken(user_info[p])]
            /\ pc' = [pc EXCEPT ![p] = "fetch"]
            /\ UNCHANGED app_lookup
       ELSE /\ app_lookup' = [app_lookup EXCEPT ![p] = TRUE]
            /\ IF cache[AT] # Absent
               THEN /\ token' = [token EXCEPT ![p] = BytesDecode(cache[AT])]
                    /\ pc' = [pc EXCEPT ![p] = "fetch"]
               ELSE /\ pc' = [pc EXCEPT ![p] = "generate"]
                    /\ UNCHANGED token
    /\ UNCHANGED <<resp, redis, history, kind, cookie, path, user_info, data, api_stats,
                   status, gets, refreshes, generated, calls>>

\* get_access_token from its generate_access_token call to its return.
GetAccessTokenGenerate(p) ==
    /\ pc[p] = "generate"
    /\ \E r \in GrantResponses :
         LET tok == GenerateAccessToken(r)
         IN  /\ cache' = StoreAppToken(cache, tok)
             /\ ttl' = IF tok # None THEN RedisSetTtl(ttl, AT, NoTtl) ELSE ttl
             /\ IF tok # None THEN Wrote(AT, "token") ELSE UNCHANGED history
             /\ token' = [token EXCEPT ![p] = tok]
             /\ issued' = [issued EXCEPT ![p] = IF tok # None THEN tok ELSE @]
    /\ generated' = [generated EXCEPT ![p] = TRUE]
    /\ pc' = [pc EXCEPT ![p] = "fetch"]
    /\ UNCHANGED <<resp, kind, cookie, path, user_info, data, api_stats, status,
                   gets, refreshes, app_lookup, bearer, access_token_resp, me_resp>>

\* ----------------------------------------------------------- reddit_fetch

\* The handler's target_url: "/" is /r/popular for a request without user_info.
TargetUrl(q, info) ==
    IF q = "/" /\ info = EmptyDict THEN UrlPopular
    ELSE CASE q = "/" -> UrlRoot
           [] q = "/r/popular" -> UrlPopular

\* (mutant) a hit returns a stats triple of Nones instead of {}
CacheLookup_Mut(c, url) ==
    [hit |-> c[url] # Absent,
     ok |-> JsonLoads(c[url]).ok,
     data |-> JsonLoads(c[url]).val,
     stats |-> [used |-> None, remaining |-> None, reset |-> None]]

\* reddit_fetch's first lines on the store c: what cache.get finds under url,
\* and what json.loads makes of it.
CacheLookup(c, url) ==
    [hit |-> c[url] # Absent,
     ok |-> JsonLoads(c[url]).ok,
     data |-> JsonLoads(c[url]).val,
     stats |-> EmptyDict]

\* (mutant) 403 is taken for an expired token too
IsUnauthorized_Mut(st) == st \in {UNAUTHORIZED, "403"}

\* resp.status_code == HTTPStatus.UNAUTHORIZED
IsUnauthorized(st) == st = UNAUTHORIZED

\* resp.headers.get(...)
HeaderGet(h, name) == DictGet(h, name)
\* {"used": used, "remaining": remaining, "reset": reset}
RateLimitStats(h) ==
    [used |-> HeaderGet(h, "x-ratelimit-used"),
     remaining |-> HeaderGet(h, "x-ratelimit-remaining"),
     reset |-> HeaderGet(h, "x-ratelimit-reset")]

\* (mutant) the decoded payload is re-encoded and stored
ContentToCache_Mut(r) == JsonDumps(JsonLoads(r.body).val)

\* resp.content, the bytes cache.set stores under target_url
ContentToCache(r) == r.body

\* reddit_fetch from its entry to the cache hit's return, or to the GET.
FetchLookup(p) ==
    /\ pc[p] = "fetch"
    /\ LET found == CacheLookup(cache, TargetUrl(path[p], user_info[p]))
       IN  IF ~found.hit
           THEN /\ pc' = [pc EXCEPT ![p] = "get"]
                /\ UNCHANGED <<data, api_stats, status>>
           ELSE IF found.ok
           THEN /\ data' = [data EXCEPT ![p] = found.data]
                /\ api_stats' = [api_stats EXCEPT ![p] = found.stats]
                /\ pc' = [pc EXCEPT ![p] = "stats"]
                /\ UNCHANGED status
           ELSE /\ status' = [status EXCEPT ![p] = UncaughtStatus]
                /\ pc' = [pc EXCEPT ![p] = "raise"]
                /\ UNCHANGED <<data, api_stats>>
    /\ UNCHANGED <<redis, history, kind, cookie, path, user_info, token, resp,
                   gets, refreshes, generated, app_lookup, calls>>

\* reddit_fetch from httpx.get to its return, its raise, or the 401 branch.
FetchGet(p) ==
    /\ pc[p] = "get"
    /\ gets' = [gets EXCEPT ![p] = Inc(@)]
    /\ bearer' = [bearer EXCEPT ![p] = token[p]]
    /\ \E r \in GetResponsesTo(token[p]) :
         /\ resp' = [resp EXCEPT ![p] = r]
         /\ LET url == TargetUrl(path[p], user_info[p])
                body == JsonLoads(r.body)
            IN  IF r.status # OK
                THEN /\ IF IsUnauthorized(r.status)
                        THEN /\ pc' = [pc EXCEPT ![p] = "refresh"]
                             /\ UNCHANGED status
                        ELSE /\ status' = [status EXCEPT ![p] = r.status]
                             /\ pc' = [pc EXCEPT ![p] = "raise"]
                     /\ UNCHANGED <<redis, history, data, api_stats>>
                ELSE IF ~body.ok
                THEN /\ status' = [status EXCEPT ![p] = UncaughtStatus]
                     /\ pc' = [pc EXCEPT ![p] = "raise"]
                     /\ UNCHANGED <<redis, history, data, api_stats>>
                ELSE /\ cache' = RedisSet(cache, url, ContentToCache(r))
                     /\ ttl' = RedisSetTtl(ttl, url, ResourceTtl)
                     /\ Wrote(url, "fetch")
                     /\ data' = [data EXCEPT ![p] = body.val]
                     /\ api_stats' = [api_stats EXCEPT ![p] = RateLimitStats(r.headers)]
                     /\ pc' = [pc EXCEPT ![p] = "stats"]
                     /\ UNCHANGED status
    /\ UNCHANGED <<kind, cookie, path, user_info, token, refreshes, generated,
                   app_lookup, issued, access_token_resp, me_resp>>

\* reddit_fetch's 401 branch: generate_access_token, the cache.set, and the
\* recursive call with whatever token came back.
FetchRefresh(p) ==
    /\ pc[p] = "refresh"
    /\ refreshes' = [refreshes EXCEPT ![p] = Inc(@)]
    /\ \E r \in GrantResponses :
         LET tok == GenerateAccessToken(r)
         IN  /\ cache' = StoreAppToken(cache, tok)
             /\ ttl' = IF tok # None THEN RedisSetTtl(ttl, AT, NoTtl) ELSE ttl
             /\ IF tok # None THEN Wrote(AT, "token") ELSE UNCHANGED history
             /\ token' = [token EXCEPT ![p] = tok]
             /\ issued' = [issued EXCEPT ![p] = IF tok # None THEN tok ELSE @]
    /\ pc' = [pc EXCEPT ![p] = "fetch"]
    /\ UNCHANGED <<resp, kind, cookie, path, user_info, data, api_stats, status,
                   gets, generated, app_lookup, bearer, access_token_resp, me_resp>>

\* ------------------------------------------------- the handler's statistics

\* user_info["name"] + ".api_stats " if user_info else "api_stats";
\* None stands for the KeyError of a user_info without a name.
StatsKey(info) ==
    IF info = EmptyDict THEN AnonStatsKey
    ELSE IF "name" \in DOMAIN info THEN UserStatsKey(info["name"])
    ELSE None

\* The handler after reddit_fetch returned: record or backfill, then render.
Stats(p) ==
    /\ pc[p] = "stats"
    /\ LET stats_key == StatsKey(user_info[p])
           cached == JsonLoads(cache[stats_key])
       IN  IF stats_key = None
           THEN /\ status' = [status EXCEPT ![p] = UncaughtStatus]
                /\ pc' = [pc EXCEPT ![p] = "raise"]
                /\ UNCHANGED <<redis, history, api_stats>>
           ELSE IF api_stats[p] # EmptyDict
           THEN /\ cache' = RedisSet(cache, stats_key, JsonDumps(api_stats[p]))
                /\ ttl' = RedisSetTtl(ttl, stats_key, NoTtl)
                /\ Recorded(stats_key, api_stats[p])
                /\ status' = [status EXCEPT ![p] = OK]
                /\ pc' = [pc EXCEPT ![p] = "done"]
                /\ UNCHANGED api_stats
           ELSE IF cache[stats_key] = Absent
           THEN /\ status' = [status EXCEPT ![p] = OK]
                /\ pc' = [pc EXCEPT ![p] = "done"]
                /\ UNCHANGED <<redis, history, api_stats>>
           ELSE IF cached.ok
           THEN /\ api_stats' = [api_stats EXCEPT ![p] = cached.val]
                /\ status' = [status EXCEPT ![p] = OK]
                /\ pc' = [pc EXCEPT ![p] = "done"]
                /\ UNCHANGED <<redis, history>>
           ELSE /\ status' = [status EXCEPT ![p] = UncaughtStatus]
                /\ pc' = [pc EXCEPT ![p] = "raise"]
                /\ UNCHANGED <<redis, history, api_stats>>
    /\ UNCHANGED <<kind, cookie, path, user_info, token, resp, data, gets, refreshes,
                   generated, app_lookup, calls>>

\* The response leaves; the request's locals are gone.
Respond(p) ==
    /\ pc[p] \in {"done", "raise"}
    /\ pc' = [pc EXCEPT ![p] = "idle"]
    /\ kind' = [kind EXCEPT ![p] = "none"]
    /\ cookie' = [cookie EXCEPT ![p] = None]
    /\ path' = [path EXCEPT ![p] = "/"]
    /\ user_info' = [user_info EXCEPT ![p] = EmptyDict]
    /\ token' = [token EXCEPT ![p] = None]
    /\ resp' = [resp EXCEPT ![p] = NoResp]
    /\ data' = [data EXCEPT ![p] = EmptyDict]
    /\ api_stats' = [api_stats EXCEPT ![p] = EmptyDict]
    /\ status' = [status EXCEPT ![p] = None]
    /\ gets' = [gets EXCEPT ![p] = 0]
    /\ refreshes' = [refreshes EXCEPT ![p] = 0]
    /\ generated' = [generated EXCEPT ![p] = FALSE]
    /\ app_lookup' = [app_lookup EXCEPT ![p] = FALSE]
    /\ bearer' = [bearer EXCEPT ![p] = None]
    /\ issued' = [issued EXCEPT ![p] = None]
    /\ access_token_resp' = [access_token_resp EXCEPT ![p] = NoExchange]
    /\ me_resp' = [me_resp EXCEPT ![p] = Absent]
    /\ UNCHANGED <<redis, history>>

\* ------------------------------------------------------- /auth and /logout

\* (mutant) the profile is fetched and stored whatever the exchange answered
ExchangeOk_Mut(st) == TRUE

\* if access_token_resp.status_code == HTTPStatus.OK
ExchangeOk(st) == st = OK

\* auth: the state check, the code exchange, the profile call, the cache.set.
Auth(p) ==
    /\ pc[p] = "idle"
    /\ kind' = [kind EXCEPT ![p] = "auth"]
    /\ \E c \in Cookies, ex \in ExchangeResponses, me \in MeBodies :
       \E state \in {c, "other"} :
         LET profile == JsonLoads(me)
             record == JsonDumps(DictMerge(ex.json, profile.val))
         IN  /\ cookie' = [cookie EXCEPT ![p] = c]
             /\ IF c = None
                THEN \* the cookie is a required parameter
                     /\ status' = [status EXCEPT ![p] = "422"]
                     /\ pc' = [pc EXCEPT ![p] = "raise"]
                     /\ UNCHANGED <<redis, history, access_token_resp, me_resp>>
                ELSE IF c # state
                THEN \* HTTPException(status=...) is itself a TypeError
                     /\ status' = [status EXCEPT ![p] = UncaughtStatus]
                     /\ pc' = [pc EXCEPT ![p] = "raise"]
                     /\ UNCHANGED <<redis, history, access_token_resp, me_resp>>
                ELSE IF ~ExchangeOk(ex.status)
                THEN /\ access_token_resp' = [access_token_resp EXCEPT ![p] = ex]
                     /\ status' = [status EXCEPT ![p] = ex.status]
                     /\ pc' = [pc EXCEPT ![p] = "raise"]
                     /\ UNCHANGED <<redis, history, me_resp>>
                ELSE IF ~profile.ok
                THEN /\ access_token_resp' = [access_token_resp EXCEPT ![p] = ex]
                     /\ me_resp' = [me_resp EXCEPT ![p] = me]
                     /\ status' = [status EXCEPT ![p] = UncaughtStatus]
                     /\ pc' = [pc EXCEPT ![p] = "raise"]
                     /\ UNCHANGED <<redis, history>>
                ELSE /\ access_token_resp' = [access_token_resp EXCEPT ![p] = ex]
                     /\ me_resp' = [me_resp EXCEPT ![p] = me]
                     /\ cache' = RedisSet(cache, c, record)
                     /\ ttl' = RedisSetTtl(ttl, c, NoTtl)
                     /\ WroteSession(c, "stored")
                     /\ status' = [status EXCEPT ![p] = "307"]
                     /\ pc' = [pc EXCEPT ![p] = "done"]
    /\ UNCHANGED <<path, user_info, token, resp, data, api_stats, gets, refreshes,
                   generated, app_lookup, bearer, issued>>

\* logout: cache.delete(user_token); redis-py refuses a None key.
LogoutWith(p, cs) ==
    /\ pc[p] = "idle"
    /\ kind' = [kind EXCEPT ![p] = "logout"]
    /\ \E c \in cs :
         /\ cookie' = [cookie EXCEPT ![p] = c]
         /\ IF c = None
            THEN /\ status' = [status EXCEPT ![p] = UncaughtStatus]
                 /\ pc' = [pc EXCEPT ![p] = "raise"]
                 /\ UNCHANGED <<redis, history>>
            ELSE /\ cache' = RedisDelete(cache, c)
                 /\ ttl' = RedisSetTtl(ttl, c, NoTtl)
                 /\ WroteSession(c, "logged_out")
                 /\ status' = [status EXCEPT ![p] = "307"]
                 /\ pc' = [pc EXCEPT ![p] = "done"]
    /\ UNCHANGED <<path, user_info, token, resp, data, api_stats, gets, refreshes,
                   generated, app_lookup, calls>>

Logout(p) == LogoutWith(p, Cookies)

\* ------------------------------------------------------------------ time

\* d seconds pass: Redis drops the keys whose expiry is reached.
Expired(k, d) == ttl[k] # NoTtl /\ ttl[k] <= d

Tick(d) ==
    /\ cache' = [k \in Keys |-> IF Expired(k, d) THEN Absent ELSE cache[k]]
    /\ ttl' = [k \in Keys |->
                 IF ttl[k] = NoTtl \/ Expired(k, d) THEN NoTtl ELSE ttl[k] - d]
    /\ age' = [k \in Keys |->
                 IF writer[k] = "fetch" THEN Min(age[k] + d, AgeCap) ELSE age[k]]
    /\ UNCHANGED <<writer, recorded, session, pc, locals>>

\* ------------------------------------------------------------------ Spec

Step(p) ==
    \/ Request(p)
    \/ GetUser(p)
    \/ GetUserDelete(p)
    \/ GetAccessToken(p)
    \/ GetAccessTokenGenerate(p)
    \/ FetchLookup(p)
    \/ FetchGet(p)
    \/ FetchRefresh(p)
    \/ Stats(p)
    \/ Respond(p)
    \/ Auth(p)
    \/ Logout(p)

Next == (\E p \in Procs : Step(p)) \/ (\E d \in TickSteps : Tick(d))

Spec == Init /\ [][Next]_vars

\* A request that was accepted is run to its response: the server does not
\* stop in the middle of a handler.  Clients and the clock owe nothing.
Run(p) ==
    \/ GetUser(p)
    \/ GetUserDelete(p)
    \/ GetAccessToken(p)
    \/ GetAccessTokenGenerate(p)
    \/ FetchLookup(p)
    \/ FetchGet(p)
    \/ FetchRefresh(p)
    \/ Stats(p)
    \/ Respond(p)

FairSpec == Init /\ [][Next]_vars /\ \A p \in Procs : WF_vars(Run(p))

\* Clients without a session, one of them sending the anonymous stats key
\* as its cookie.
StatsCookies == {None, AnonStatsKey}

StatsStep(p) ==
    \/ RequestWith(p, StatsCookies)
    \/ Run(p)
    \/ LogoutWith(p, StatsCookies)

StatsNext == \E p \in Procs : StatsStep(p)

StatsSpec == Init /\ [][StatsNext]_vars

\* Two requests without a session run at once (FastAPI runs the handlers on
\* a thread pool), each to its response; the store holds no application token
\* or one that upstream may no longer accept.
StaleToken == "a0"
ConcStores ==
    { [k \in Keys |-> Absent],
      [k \in Keys |-> IF k = AT THEN TextBytes(StaleToken) ELSE Absent] }

ConcInit ==
    /\ cache \in ConcStores
    /\ ttl = [k \in Keys |-> NoTtl]
    /\ age = [k \in Keys |-> 0]
    /\ writer = [k \in Keys |-> IF cache[k] = Absent THEN "none" ELSE "token"]
    /\ recorded = [k \in StatsKeys |-> EmptyDict]
    /\ session = [s \in SessionIds |-> "none"]
    /\ Fresh(Procs)

ConcStep(p) ==
    \/ RequestWith(p, {None})
    \/ GetUser(p)
    \/ GetAccessToken(p)
    \/ GetAccessTokenGenerate(p)
    \/ FetchLookup(p)
    \/ FetchGet(p)
    \/ FetchRefresh(p)
    \/ Stats(p)

ConcNext == \E p \in Procs : ConcStep(p)

ConcSpec == ConcInit /\ [][ConcNext]_vars

\* =================================================================== claims

\* The request is inside one logical call of reddit_fetch.
InFetch(p) == pc[p] \in {"fetch", "get", "refresh"}
\* reddit_fetch is over: it returned to the handler, or raised.
FetchOver(p) == pc[p] \in {"stats", "done", "raise"}
\* Two GETs of this call were answered 401: every refresh follows one, and a
\* request waiting at "refresh" has just received one more.
TwiceUnauthorized(p) ==
    \/ refreshes[p] >= 2
    \/ refreshes[p] >= 1 /\ pc[p] = "refresh"

\* C1: once the first GET and the retried GET of a call have both been answered
\* 401, the call has failed, after exactly one refresh and exactly two GETs.
C1_SingleRetryBound ==
    \A p \in Procs :
        TwiceUnauthorized(p) =>
            /\ pc[p] = "raise"
            /\ refreshes[p] = 1
            /\ gets[p] = 2

\* C2: every call of reddit_fetch comes to an end, returning or raising.
C2_FetchTerminates ==
    \A p \in Procs : (pc[p] = "fetch") ~> FetchOver(p)

\* C3: after a 401 whose refresh got no token, the call has failed: it is not
\* on its way to another GET.
C3_FailedRefreshFailsFetch ==
    \A p \in Procs :
        (refreshes[p] >= 1 /\ token[p] = None) => pc[p] = "raise"

\* C4: a lookup that finds undecodable bytes under the target URL evicts them
\* and goes on to the live GET, as on a miss.
C4_UndecodableEntryIsMiss ==
    [][\A p \in Procs :
          LET url == TargetUrl(path[p], user_info[p])
          IN  (pc[p] = "fetch" /\ pc'[p] # "fetch"
               /\ cache[url] # Absent /\ ~JsonLoads(cache[url]).ok)
              => (pc'[p] = "get" /\ cache'[url] = Absent)]_vars

\* C5: a lookup that finds decodable bytes under the target URL returns their
\* decoding with empty stats, whatever the token; it makes no GET and no grant
\* call and leaves the store as it was.
C5_CacheHit ==
    [][\A p \in Procs :
          LET url == TargetUrl(path[p], user_info[p])
          IN  (pc[p] = "fetch" /\ pc'[p] # "fetch"
               /\ cache[url] # Absent /\ JsonLoads(cache[url]).ok)
              => /\ pc'[p] = "stats"
                 /\ data'[p] = JsonLoads(cache[url]).val
                 /\ api_stats'[p] = EmptyDict
                 /\ gets'[p] = gets[p] /\ refreshes'[p] = refreshes[p]
                 /\ resp'[p] = resp[p]
                 /\ (gets[p] = 0 /\ refreshes[p] = 0 => resp'[p] = NoResp)
                 /\ cache' = cache /\ ttl' = ttl]_vars

\* A cache hit happened: reddit_fetch returned a payload with empty stats and
\* without any GET, to a request carrying a user's token.
C5_Witness ==
    \E p \in Procs :
        /\ pc[p] = "stats" /\ api_stats[p] = EmptyDict
        /\ gets[p] = 0 /\ refreshes[p] = 0
        /\ data[p] \in Payloads
        /\ token[p] \in UserTokens

\* The cookie names a session record that holds a bearer token.
HasUserSession(c) ==
    /\ c # None
    /\ cache[c] # Absent
    /\ JsonLoads(cache[c]).ok
    /\ "access_token" \in DOMAIN JsonLoads(cache[c]).val

\* C6: with a session record holding a bearer token under the request's
\* cookie, get_user hands that record on and get_access_token returns its
\* token: line 100's lookup of access_token is not made, no grant is called,
\* and the store is left as it was.
C6_UserTokenFirst ==
    [][\A p \in Procs :
          /\ (pc[p] = "get_user" /\ pc'[p] # "get_user" /\ HasUserSession(cookie[p]))
              => /\ pc'[p] = "get_access_token"
                 /\ user_info'[p] = JsonLoads(cache[cookie[p]]).val
                 /\ cache' = cache /\ ttl' = ttl
          /\ (pc[p] = "get_access_token" /\ pc'[p] # "get_access_token"
               /\ "access_token" \in DOMAIN user_info[p])
              => /\ pc'[p] = "fetch"
                 /\ token'[p] = user_info[p]["access_token"]
                 /\ ~app_lookup'[p] /\ ~generated'[p]
                 /\ cache' = cache /\ ttl' = ttl]_vars

\* The user's token was resolved while the store held no access_token at all.
C6_Witness ==
    \E p \in Procs :
        /\ pc[p] = "fetch" /\ gets[p] = 0 /\ refreshes[p] = 0
        /\ cookie[p] = "sid1" /\ HasUserSession(cookie[p])
        /\ token[p] \in UserTokens
        /\ ~app_lookup[p] /\ ~generated[p]
        /\ cache[AT] = Absent

\* What C7 says of the step that receives a 200 answer to the GET of a miss;
\* with decodable_only, only of an answer whose body json.loads accepts.
LiveFetchStoresAndReturns(decodable_only) ==
    \A p \in Procs :
        LET url == TargetUrl(path[p], user_info[p])
        IN  (pc[p] = "get" /\ pc'[p] # "get" /\ resp'[p].status = OK
             /\ (decodable_only => JsonLoads(resp'[p].body).ok))
            => /\ pc'[p] = "stats"
               /\ gets[p] = 0 => (gets'[p] = 1 /\ refreshes'[p] = 0)
               /\ cache'[url] = resp'[p].body
               /\ ttl'[url] = 300
               /\ \A k \in Keys \ {url} : cache'[k] = cache[k] /\ ttl'[k] = ttl[k]
               /\ JsonLoads(resp'[p].body).ok
               /\ data'[p] = JsonLoads(resp'[p].body).val
               /\ api_stats'[p] =
                     [used |-> DictGet(resp'[p].headers, "x-ratelimit-used"),
                      remaining |-> DictGet(resp'[p].headers, "x-ratelimit-remaining"),
                      reset |-> DictGet(resp'[p].headers, "x-ratelimit-reset")]
               /\ CacheLookup(cache', url).hit
               /\ CacheLookup(cache', url).ok
               /\ CacheLookup(cache', url).data = data'[p]

\* C7 as claimed: every miss whose GET is answered 200 stores the body under
\* the URL for 300 s and returns its decoding with the headers' stats; the
\* next lookup of the URL is a hit with the same data.
C7_AsClaimed == [][LiveFetchStoresAndReturns(FALSE)]_vars

\* C7 amended: the same, of a GET answered 200 with a body that decodes.
C7_LiveFetch == [][LiveFetchStoresAndReturns(TRUE)]_vars

\* A first GET was answered 200 without x-ratelimit-used: the body is in the
\* store for 300 s and the stats carry None for used.
C7_Witness ==
    \E p \in Procs :
        LET url == TargetUrl(path[p], user_info[p])
        IN  /\ pc[p] = "stats" /\ gets[p] = 1 /\ refreshes[p] = 0
            /\ resp[p].status = OK
            /\ cache[url] = resp[p].body /\ ttl[url] = 300
            /\ data[p] \in Payloads
            /\ api_stats[p].used = None /\ api_stats[p].remaining = "595"

\* What C8 says of the step that receives a 200 answer to the retried GET,
\* after the token read from the store met a 401 and the grant gave a token.
RetrySucceeds(decodable_only) ==
    \A p \in Procs :
        (pc[p] = "get" /\ pc'[p] # "get"
         /\ app_lookup[p] /\ ~generated[p]
         /\ gets[p] = 1 /\ refreshes[p] = 1 /\ token[p] # None
         /\ resp'[p].status = OK
         /\ (decodable_only => JsonLoads(resp'[p].body).ok))
        => /\ pc'[p] = "stats"
           /\ JsonLoads(resp'[p].body).ok
           /\ data'[p] = JsonLoads(resp'[p].body).val
           /\ gets'[p] = 2 /\ refreshes'[p] = 1 /\ ~generated'[p]
           /\ cache'[AT] = TextBytes(token[p])

\* C8 as claimed: stale stored token, 401, successful grant, retried GET
\* answered 200: one grant, two GETs, one successful result, and
\* access_token holds the granted token.
C8_AsClaimed == [][RetrySucceeds(FALSE)]_vars

\* C8 amended: the same, of a retried GET answered 200 with a body that decodes.
C8_RefreshAndRetry == [][RetrySucceeds(TRUE)]_vars

\* The scenario ran to its successful return.
C8_Witness ==
    \E p \in Procs :
        /\ pc[p] = "stats" /\ app_lookup[p] /\ ~generated[p]
        /\ gets[p] = 2 /\ refreshes[p] = 1
        /\ token[p] \in AppTokens /\ cache[AT] = TextBytes(token[p])
        /\ resp[p].status = OK /\ data[p] \in Payloads

\* C9: the step that receives an answer other than 200 and 401 raises with
\* that status; no grant is called, no further GET follows, and the store is
\* left as it was.
C9_UpstreamRejected ==
    [][\A p \in Procs :
          (pc[p] = "get" /\ pc'[p] # "get"
           /\ resp'[p].status \notin {OK, UNAUTHORIZED})
          => /\ pc'[p] = "raise"
             /\ status'[p] = resp'[p].status
             /\ refreshes'[p] = refreshes[p]
             /\ gets[p] = 0 => gets'[p] = 1
             /\ cache' = cache /\ ttl' = ttl]_vars

\* A first GET was answered 403 and the request failed with 403.
C9_Witness ==
    \E p \in Procs :
        /\ pc[p] = "raise" /\ gets[p] = 1 /\ refreshes[p] = 0
        /\ resp[p].status = "403" /\ status[p] = "403"
        /\ cache[TargetUrl(path[p], user_info[p])] = Absent

\* C10: an entry a live fetch wrote, and nobody has overwritten or deleted
\* since, is served as a hit while it is at most 299 s old and is gone once it
\* is 301 s old; what was written under access_token, a session identifier or
\* a stats key has no expiry and stays until overwritten or deleted.
C10_TtlHonoured ==
    \A k \in Keys :
        /\ writer[k] = "fetch" =>
              /\ age[k] <= 299 => (CacheLookup(cache, k).hit /\ CacheLookup(cache, k).ok)
              /\ age[k] >= 301 => cache[k] = Absent
        /\ writer[k] \in {"token", "session", "stats"} =>
              (cache[k] # Absent /\ ttl[k] = NoTtl)

\* One resource entry is 299 s old and present, another is 301 s old and gone,
\* while the token, a session and the anonymous stats have outlived them.
C10_Witness ==
    /\ writer[UrlPopular] = "fetch" /\ age[UrlPopular] = 299
    /\ cache[UrlPopular] # Absent
    /\ writer[UrlRoot] = "fetch" /\ age[UrlRoot] >= 301
    /\ cache[UrlRoot] = Absent
    /\ writer[AT] = "token" /\ cache[AT] # Absent
    /\ writer["sid1"] = "session" /\ cache["sid1"] # Absent
    /\ writer[AnonStatsKey] = "stats" /\ cache[AnonStatsKey] # Absent

\* C11: a request served from the cache, of an identity for which a stats
\* triple has been recorded, reports the triple last recorded under that
\* identity's stats key, unchanged.
C11_BackfillLastRecorded ==
    [][\A p \in Procs :
          LET stats_key == StatsKey(user_info[p])
          IN  (pc[p] = "stats" /\ pc'[p] # "stats" /\ api_stats[p] = EmptyDict
               /\ stats_key # None /\ recorded[stats_key] # EmptyDict)
              => /\ pc'[p] = "done"
                 /\ api_stats'[p] = recorded[stats_key]]_vars

\* C12: an entry written as the application token, as a stats triple or as a
\* resource is removed by the passing of its expiry time only; a logout step,
\* whatever cookie the client sent, changes at most the session record stored
\* under that cookie.
C12_OnlyExpiryRemoves ==
    [][/\ \A k \in Keys :
            (writer[k] \in {"token", "stats", "fetch"}
             /\ cache[k] # Absent /\ cache'[k] = Absent)
            => (pc' = pc /\ ttl[k] # NoTtl)
       /\ \A p \in Procs :
            (pc[p] = "idle" /\ kind'[p] = "logout")
            => \A k \in Keys :
                  cache'[k] # cache[k] => (k = cookie'[p] /\ writer[k] = "session")]_vars

\* Every request has its response.
AllFinished == \A p \in Procs : pc[p] \in {"done", "raise"}
\* Tokens a successful client-credentials grant has issued, now or earlier.
GrantedTokens == AppTokens \cup {StaleToken}

\* C13: when concurrent requests have all finished and any of their grants
\* succeeded, access_token holds the token of one request's latest successful
\* grant; and a request that holds a token and whose GET was answered 200
\* sent that token with the GET, the token being the one its own latest grant
\* returned or, if it made no successful grant, one read from the store that a
\* grant had issued.
C13_RaceTolerated ==
    /\ (AllFinished /\ \E p \in Procs : issued[p] # None)
          => \E p \in Procs : issued[p] # None /\ cache[AT] = TextBytes(issued[p])
    /\ \A p \in Procs :
          (pc[p] \in {"stats", "done"} /\ resp[p].status = OK /\ token[p] # None)
          => /\ bearer[p] = token[p]
             /\ IF issued[p] # None THEN token[p] = issued[p]
                ELSE token[p] \in GrantedTokens

\* Both requests found no application token and both grants succeeded; both
\* have finished, one of them on a GET that carried its own, other token.
C13_Witness ==
    /\ AllFinished
    /\ \A p \in Procs : generated[p] /\ issued[p] \in AppTokens
    /\ issued["r1"] # issued["r2"]
    /\ \E p \in Procs :
          /\ pc[p] = "done" /\ resp[p].status = OK /\ bearer[p] = issued[p]
          /\ cache[AT] # TextBytes(issued[p])

\* C14: an auth step whose code exchange is answered with another status than
\* 200 fails with that status; the identity-profile endpoint is not called and
\* the store, the entry under the session identifier included, is left as it
\* was.
C14_ExchangeRejected ==
    [][\A p \in Procs :
          (pc[p] = "idle" /\ kind'[p] = "auth"
           /\ access_token_resp'[p].status \notin {None, OK})
          => /\ pc'[p] = "raise"
             /\ status'[p] = access_token_resp'[p].status
             /\ me_resp'[p] = Absent
             /\ cache' = cache /\ ttl' = ttl]_vars

\* An exchange for a cookie that already names a session was answered 400:
\* auth failed with 400 without a profile call, and the session is still there.
C14_Witness ==
    \E p \in Procs :
        /\ kind[p] = "auth" /\ pc[p] = "raise"
        /\ access_token_resp[p].status = "400" /\ status[p] = "400"
        /\ me_resp[p] = Absent
        /\ cookie[p] = "sid1" /\ HasUserSession("sid1")

\* C15: every entry auth stored as a session record decodes to a record that
\* holds both access_token and name.
C15_SessionHasTokenAndName ==
    \A k \in Keys :
        writer[k] = "session" =>
            /\ JsonLoads(cache[k]).ok
            /\ {"access_token", "name"} \subseteq DOMAIN JsonLoads(cache[k]).val

\* The request has just resolved its bearer token: it stands at the entry of
\* reddit_fetch, before any GET or refresh.
Resolved(p) ==
    kind[p] = "subreddit" /\ pc[p] = "fetch" /\ gets[p] = 0 /\ refreshes[p] = 0

C17_AppTokenEntryIsToken ==
    cache[AT] = Absent \/ cache[AT] \in {TextBytes(t) : t \in AppTokens}

\* C18: a listing that upstream produced for a user's bearer token is returned
\* only to a request of that user's session.
C18_PayloadIsolation ==
    \A p \in Procs : \A t \in UserTokens :
        (kind[p] = "subreddit" /\ pc[p] \in {"stats", "done"}
         /\ data[p] = ListingFor(t))
        => DictGet(user_info[p], "access_token") = t

\* The request bears an issued session identifier whose record is stored, and
\* entered reddit_fetch with that record's bearer token.
UserFetch(p) ==
    /\ kind[p] = "subreddit"
    /\ cookie[p] \in SessionIds /\ session[cookie[p]] = "stored"
    /\ "access_token" \in DOMAIN user_info[p] /\ ~app_lookup[p]

\* What C19 says of the steps of a fetch entered with a user's token, after
\* its GET was answered 401.
UserRetry ==
    \A p \in Procs :
        UserFetch(p) =>
            /\ (pc[p] = "get" /\ pc'[p] # "get" /\ gets[p] = 0
                 /\ resp'[p].status = UNAUTHORIZED)
               => (pc'[p] = "refresh" /\ bearer'[p] = user_info[p]["access_token"])
            /\ (pc[p] = "refresh" /\ pc'[p] # "refresh")
               => /\ refreshes[p] = 0 => refreshes'[p] = 1
                  /\ cache'[cookie[p]] = cache[cookie[p]]
                  /\ token'[p] # None =>
                        /\ token'[p] \in AppTokens
                        /\ cache'[AT] = TextBytes(token'[p])
            /\ (pc[p] = "get" /\ pc'[p] # "get" /\ refreshes[p] >= 1
                 /\ token[p] # None)
               => /\ bearer'[p] = token[p]
                  /\ token[p] \in AppTokens
                  /\ token[p] # user_info[p]["access_token"]
                  /\ cache'[cookie[p]] = cache[cookie[p]]
            /\ (pc[p] = "stats" /\ pc'[p] # "stats" /\ refreshes[p] >= 1
                 /\ resp[p].status = OK /\ api_stats[p] # EmptyDict)
               => /\ pc'[p] = "done"
                  /\ "name" \in DOMAIN user_info[p]
                  /\ cache'[UserStatsKey(user_info[p]["name"])]
                        = JsonDumps(RateLimitStats(resp[p].headers))
                  /\ cache'[cookie[p]] = cache[cookie[p]]

\* C19: a fetch entered with a user session's token and answered 401 calls
\* the client-credentials grant, stores the granted token under access_token
\* and repeats the GET with that token, not the user's; the session record is
\* left as it was, and when the repeated GET is answered 200 the handler
\* stores its rate-limit stats under the user's stats key.
C19_UserTokenRetry == [][UserRetry]_vars
====
